---- MODULE Spec2Model ----
(***************************************************************************)
(* Model of scripts/flipper/utils/programmer_openocd.py: OpenOCDProgrammer *)
(* (reset, flash, option_bytes_validate, option_bytes_set, otp_write).     *)
(*                                                                         *)
(* The option-byte image is three parallel byte buffers; the device is the *)
(* option-byte memory (one 32-bit word every 4 bytes), the option-byte     *)
(* registers the patches are written to, its run phase and its lock state. *)
(* Every line of a method that talks to the probe is one step; a probe     *)
(* step may raise, and an exception nobody catches ends the process.       *)
(***************************************************************************)
EXTENDS Integers, Sequences, FiniteSets, TLC

\* ---------------------------------------------------------------- bounds
\* Longest image, in 8-byte dwords.
MaxDwords == 2
\* Significant bits shared by the dwords of an image: an image of n dwords
\* draws each first-word field from ImageBits \div n bits (at least one).
ImageBits == 2

\* ------------------------------------------------------- byte/word codecs
RECURSIVE BitAnd(_, _)
\* Python's a & b on non-negative integers.
BitAnd(a, b) ==
    IF a = 0 \/ b = 0 THEN 0
    ELSE ((a % 2) * (b % 2)) + 2 * BitAnd(a \div 2, b \div 2)

RECURSIVE BitXor(_, _)
\* Python's a ^ b on non-negative integers.
BitXor(a, b) ==
    IF a = 0 THEN b
    ELSE IF b = 0 THEN a
    ELSE ((a + b) % 2) + 2 * BitXor(a \div 2, b \div 2)

RECURSIVE BitOr(_, _)
\* Python's a | b on non-negative integers.
BitOr(a, b) ==
    IF a = 0 THEN b
    ELSE IF b = 0 THEN a
    ELSE (IF a % 2 = 1 \/ b % 2 = 1 THEN 1 ELSE 0) + 2 * BitOr(a \div 2, b \div 2)

RECURSIVE BitAndNot(_, _)
\* Python's a & (~m) for non-negative a and m: ~m is -(m+1), an integer of
\* unbounded width with every bit of m flipped, so the result keeps exactly
\* the bits of a that m does not have.
BitAndNot(a, m) ==
    IF a = 0 THEN 0
    ELSE ((a % 2) * (1 - (m % 2))) + 2 * BitAndNot(a \div 2, m \div 2)

\* value.to_bytes(4, "little")
ToBytes4(v) ==
    << v % 256, (v \div 256) % 256, (v \div 65536) % 256, (v \div 16777216) % 256 >>

\* int.from_bytes(data[offset : offset + 4], "little"); offset is 0-based.
unpack_u32(data, offset) ==
    data[offset + 1] + 256 * data[offset + 2]
        + 65536 * data[offset + 3] + 16777216 * data[offset + 4]

RECURSIVE WordsToBytes(_)
\* The byte buffer holding a sequence of 32-bit words, little-endian.
WordsToBytes(ws) ==
    IF ws = << >> THEN << >> ELSE ToBytes4(Head(ws)) \o WordsToBytes(Tail(ws))

\* ------------------------------------------------------------------ state
VARIABLES
    file,             \* the declaration file: the image OptionBytesData exports
    dev,              \* option-byte memory: dev[k + 1] is the first word of
                      \* dword k, the word at OPTION_BYTE_BASE + 8 * k
    regs,             \* option-byte registers, one per dword index
    phase,            \* device phase: "Unknown", "Halted", "Running"
    lock,             \* "Locked", "FlashUnlocked", "FlashAndOptionBytesUnlocked"
    session,          \* TRUE while the probe session is open
    pc,               \* position of the running method, "idle" or "crashed"
    op,               \* the method running, or the last one that ran
    prev,             \* the call before this one: "set" (a completed
                      \* option_bytes_set without writes), "set_wrote" (one
                      \* that wrote), or "other" (anything else, or none)
    file_ok,          \* whether the file named by the call exists and parses
    mode,             \* the mode argument of reset
    ob_values,        \* local: the exported image
    i,                \* local: loop index
    device_value,     \* local: the word read for dword i
    ob_need_to_apply, \* local
    ob_read,          \* local of option_bytes_validate: bytes read so far
    return_code,      \* local of option_bytes_validate
    diff_table,       \* the rows _ob_print_diff_table handed to print_fn
    result,           \* "none", "True", "False" or "raised"
    cause,            \* why the call raised
    trace,            \* probe commands issued by this call, in order
    writes,           \* write_32 calls of this call, with the device state then
    logs,             \* log lines of this call
    dev0              \* option-byte memory when the call began

vars == << file, dev, regs, phase, lock, session, pc, op, prev, file_ok, mode,
           ob_values, i, device_value, ob_need_to_apply, ob_read, return_code, diff_table,
           result, cause, trace, writes, logs, dev0 >>

\* Variables of the device and the file, which a step that only moves the
\* program leaves alone.
hw == << file, dev, regs, phase, lock >>
\* Locals of option_bytes_set and option_bytes_validate.
locals == << ob_values, i, device_value, ob_need_to_apply, ob_read, return_code, diff_table >>
\* What a call was given and what came before it.
call == << op, prev, file_ok, mode, dev0 >>

NoImage == [reference |-> << >>, compare_mask |-> << >>, write_mask |-> << >>]

\* Field values of an image of n dwords.
FieldVals(n) == 0 .. (2 ^ (IF n = 0 \/ ImageBits \div n = 0 THEN 1 ELSE ImageBits \div n)) - 1

\* What a read of the second word of a dword may return. The program never
\* writes these words and the device keeps them to itself, so a read returns
\* any of these values.
SecondWordVals == 0 .. 1

\* The image of n dwords whose first words carry the given references,
\* compare masks and write masks; the second word of a dword is compared in
\* its lowest bit with reference 0 and is never writable.
ImageOf(n, refW, cmW, wmW) ==
    [reference    |-> WordsToBytes([k \in 1 .. 2 * n |->
                        IF k % 2 = 1 THEN refW[(k + 1) \div 2] ELSE 0]),
     compare_mask |-> WordsToBytes([k \in 1 .. 2 * n |->
                        IF k % 2 = 1 THEN cmW[(k + 1) \div 2] ELSE 1]),
     write_mask   |-> WordsToBytes([k \in 1 .. 2 * n |->
                        IF k % 2 = 1 THEN wmW[(k + 1) \div 2] ELSE 0])]

\* The worked scenario of the specification: one dword with reference 0xAA,
\* compare mask 0xF0, write mask 0xF0, on a device whose live byte is 0x5A.
ScenarioImage == ImageOf(1, << 170 >>, << 240 >>, << 240 >>)
ScenarioLive == << 90 >>

\* The images and device contents the model starts from: n dwords whose
\* first words carry reference, compare mask, write mask and live value from
\* FieldVals(n), and the worked scenario.
Init ==
    /\ \/ \E n \in 0 .. MaxDwords :
            \E refW, cmW, wmW, liveW \in [1 .. n -> FieldVals(n)] :
              /\ file = ImageOf(n, refW, cmW, wmW)
              /\ dev = liveW
              /\ regs = liveW
              /\ dev0 = liveW
       \/ /\ file = ScenarioImage
          /\ dev = ScenarioLive
          /\ regs = ScenarioLive
          /\ dev0 = ScenarioLive
    /\ phase = "Unknown"
    /\ lock = "Locked"
    /\ session = FALSE
    /\ pc = "idle"
    /\ op = "none"
    /\ prev = "other"
    /\ file_ok = TRUE
    /\ mode = "Run"
    /\ ob_values = NoImage
    /\ i = 0
    /\ device_value = 0
    /\ ob_need_to_apply = FALSE
    /\ ob_read = << >>
    /\ return_code = FALSE
    /\ diff_table = << >>
    /\ result = "none"
    /\ cause = "none"
    /\ trace = << >>
    /\ writes = << >>
    /\ logs = << >>

\* ------------------------------------------------------- device commands
\* What the STM32WB55 commands and the OpenOCD session do to the device.

\* stm32.reset(oocd, RunMode.Init) halts the core; RunMode.Run lets it run.
PhaseAfterReset(m) == IF m = "Init" THEN "Halted" ELSE "Running"

\* stm32.flash_unlock: the flash control register is unlocked.
LockAfterFlashUnlock(l) == IF l = "Locked" THEN "FlashUnlocked" ELSE l

\* stm32.option_bytes_unlock: the option-byte bank opens once flash is open.
LockAfterOptionBytesUnlock(l) ==
    IF l = "FlashUnlocked" THEN "FlashAndOptionBytesUnlocked" ELSE l

\* stm32.option_bytes_apply: the registers are committed to option-byte memory.
DevAfterApply(d, r) == r

\* stm32.option_bytes_load: the registers are reloaded from option-byte memory.
RegsAfterLoad(d, r) == d

\* openocd.read_32(OPTION_BYTE_BASE + 4 * k): what a read of word k of
\* option-byte memory may return.
read_32(k) == IF k % 2 = 0 THEN {dev[(k \div 2) + 1]} ELSE SecondWordVals

\* ------------------------------------------------------------ the caller
\* A method is called when none is running. The locals and the records of
\* the call start afresh; prev remembers how the call before ended.
Enter(method, first) ==
    /\ pc = "idle"
    /\ pc' = first
    /\ op' = method
    /\ prev' = IF op = "option_bytes_set" /\ result = "True"
               THEN (IF writes = << >> THEN "set" ELSE "set_wrote")
               ELSE "other"
    /\ ob_values' = NoImage
    /\ i' = 0
    /\ device_value' = 0
    /\ ob_need_to_apply' = FALSE
    /\ ob_read' = << >>
    /\ return_code' = FALSE
    /\ diff_table' = << >>
    /\ result' = "none"
    /\ cause' = "none"
    /\ trace' = << >>
    /\ writes' = << >>
    /\ logs' = << >>
    /\ dev0' = dev
    /\ UNCHANGED << hw, session >>

\* An exception leaves the method at once: nothing after the raising line
\* runs, and nothing in the class catches it.
Raise(why) ==
    /\ pc' = "crashed"
    /\ result' = "raised"
    /\ cause' = why
    /\ UNCHANGED << hw, session, call, locals, trace, writes, logs >>

\* A probe command that succeeds is recorded in the order it was issued.
Issue(cmd) == trace' = Append(trace, cmd)

\* The lines at which a method talks to the probe or the register map.
ProbeSteps ==
    { "set_start", "set_halt", "set_clear", "set_flash_unlock", "set_ob_unlock",
      "set_read", "set_write", "set_load", "set_run", "set_stop",
      "val_start", "val_halt", "val_read", "val_run", "val_stop",
      "otp_start", "otp_halt", "otp_clear", "otp_read_1", "otp_read_2",
      "otp_write_1", "otp_write_2", "otp_read_3", "otp_read_4", "otp_run", "otp_stop",
      "flash_start", "flash_init", "flash_program", "flash_stop" }

\* openocd / stm32 raise: the command at pc fails (probe unreachable, write
\* rejected, register not mapped) and the exception propagates.
ProbeFault ==
    /\ \/ pc \in ProbeSteps
       \/ pc = "set_apply" /\ ob_need_to_apply
       \/ pc = "reset_body" /\ mode \in {"Run", "Stop"}
    /\ Raise("probe")

\* --------------------------------------------------- option_bytes_set
CallOptionBytesSet ==
    /\ \E ok \in BOOLEAN : file_ok' = ok
    /\ mode' = mode
    /\ Enter("option_bytes_set", "set_start")

\* self.openocd.start()
SetStart ==
    /\ pc = "set_start"
    /\ session' = TRUE
    /\ Issue("start")
    /\ pc' = "set_halt"
    /\ UNCHANGED << hw, call, locals, result, cause, writes, logs >>

\* stm32.reset(self.openocd, stm32.RunMode.Init)
SetHalt ==
    /\ pc = "set_halt"
    /\ phase' = PhaseAfterReset("Init")
    /\ Issue("reset_init")
    /\ pc' = "set_gen"
    /\ UNCHANGED << file, dev, regs, lock, session, call, locals, result, cause,
                    writes, logs >>

\* ob_data = OptionBytesData(file_path); ob_values = ob_data.gen_values().export()
SetGen ==
    /\ pc = "set_gen"
    /\ IF file_ok
       THEN /\ ob_values' = file
            /\ pc' = "set_clear"
            /\ UNCHANGED << hw, session, call, i, device_value, ob_need_to_apply,
                            ob_read, return_code, diff_table, result, cause, trace, writes, logs >>
       ELSE Raise("file")

\* SetClear gone wrong: the flash_unlock line is missing after it.
SetClear_SkipFlashUnlock ==
    /\ pc = "set_clear"
    /\ Issue("clear_flash_errors")
    /\ pc' = "set_ob_unlock"
    /\ UNCHANGED << hw, session, call, locals, result, cause, writes, logs >>

\* stm32.clear_flash_errors(self.openocd)
SetClear ==
    /\ pc = "set_clear"
    /\ Issue("clear_flash_errors")
    /\ pc' = "set_flash_unlock"
    /\ UNCHANGED << hw, session, call, locals, result, cause, writes, logs >>

\* stm32.flash_unlock(self.openocd)
SetFlashUnlock ==
    /\ pc = "set_flash_unlock"
    /\ lock' = LockAfterFlashUnlock(lock)
    /\ Issue("flash_unlock")
    /\ pc' = "set_ob_unlock"
    /\ UNCHANGED << file, dev, regs, phase, session, call, locals, result, cause,
                    writes, logs >>

\* int(ob_length / 8)
ob_dwords == Len(ob_values.reference) \div 8

\* SetOptionBytesUnlock gone wrong: the option_bytes_unlock line is missing.
SetOptionBytesUnlock_Skipped ==
    /\ pc = "set_ob_unlock"
    /\ ob_need_to_apply' = FALSE
    /\ i' = 0
    /\ pc' = IF 0 < ob_dwords THEN "set_read" ELSE "set_apply"
    /\ UNCHANGED << hw, session, call, ob_values, device_value, ob_read, return_code, diff_table,
                    result, cause, trace, writes, logs >>

\* stm32.option_bytes_unlock(self.openocd); ob_need_to_apply = False; the
\* loop begins at i = 0.
SetOptionBytesUnlock ==
    /\ pc = "set_ob_unlock"
    /\ lock' = LockAfterOptionBytesUnlock(lock)
    /\ Issue("option_bytes_unlock")
    /\ ob_need_to_apply' = FALSE
    /\ i' = 0
    /\ pc' = IF 0 < ob_dwords THEN "set_read" ELSE "set_apply"
    /\ UNCHANGED << file, dev, regs, phase, session, call, ob_values, device_value,
                    ob_read, return_code, diff_table, result, cause, writes, logs >>

\* SetRead gone wrong: the word is read at OPTION_BYTE_BASE + i * 4.
SetRead_WordStride ==
    /\ pc = "set_read"
    /\ device_value' \in read_32(i)
    /\ Issue("read_32")
    /\ IF BitAnd(BitXor(BitAnd(device_value', unpack_u32(ob_values.compare_mask, i * 8)),
                        unpack_u32(ob_values.reference, i * 8)),
                 unpack_u32(ob_values.write_mask, i * 8)) # 0
       THEN /\ pc' = "set_write"
            /\ i' = i
       ELSE /\ pc' = IF i + 1 < ob_dwords THEN "set_read" ELSE "set_apply"
            /\ i' = i + 1
    /\ UNCHANGED << hw, session, call, ob_values, ob_need_to_apply, ob_read,
                    return_code, diff_table, result, cause, writes, logs >>

\* need_patch gone wrong: the difference is not restricted to the write mask.
need_patch_NoWriteMask(value, ob_value_ref, ob_compare_mask, ob_write_mask) ==
    BitXor(BitAnd(value, ob_compare_mask), ob_value_ref) # 0

\* need_patch gone wrong: the test is == 0 instead of != 0.
need_patch_Inverted(value, ob_value_ref, ob_compare_mask, ob_write_mask) ==
    BitAnd(BitXor(BitAnd(value, ob_compare_mask), ob_value_ref), ob_write_mask) = 0

\* need_patch = ((ob_value_masked ^ ob_value_ref) & ob_write_mask) != 0,
\* with ob_value_masked = device_value & ob_compare_mask
need_patch(value, ob_value_ref, ob_compare_mask, ob_write_mask) ==
    BitAnd(BitXor(BitAnd(value, ob_compare_mask), ob_value_ref), ob_write_mask) # 0

\* ob_value gone wrong: the reference bits are assigned, not or-ed in.
ob_value_Assigned(value, ob_value_ref, ob_write_mask) ==
    BitAnd(ob_value_ref, ob_write_mask)

\* ob_value gone wrong: the write mask is not inverted.
ob_value_NoInvert(value, ob_value_ref, ob_write_mask) ==
    BitOr(BitAnd(value, ob_write_mask), BitAnd(ob_value_ref, ob_write_mask))

\* ob_value gone wrong: the writable bits of the live value are not cleared.
ob_value_NoClear(value, ob_value_ref, ob_write_mask) ==
    BitOr(value, BitAnd(ob_value_ref, ob_write_mask))

\* ob_value = device_value & (~ob_write_mask); ob_value |= ob_value_ref & ob_write_mask
ob_value(value, ob_value_ref, ob_write_mask) ==
    BitOr(BitAndNot(value, ob_write_mask), BitAnd(ob_value_ref, ob_write_mask))

\* The three 32-bit fields of dword k, unpacked from the buffers at k * 8.
RefOf(img, k) == unpack_u32(img.reference, k * 8)
CompareMaskOf(img, k) == unpack_u32(img.compare_mask, k * 8)
WriteMaskOf(img, k) == unpack_u32(img.write_mask, k * 8)

\* device_value = self.openocd.read_32(OPTION_BYTE_BASE + i * 8); the masks
\* and the reference are unpacked and need_patch decides whether the body of
\* the if runs; otherwise the loop goes on to i + 1.
SetRead ==
    /\ pc = "set_read"
    /\ device_value' \in read_32(2 * i)
    /\ Issue("read_32")
    /\ IF need_patch(device_value', RefOf(ob_values, i), CompareMaskOf(ob_values, i),
                     WriteMaskOf(ob_values, i))
       THEN /\ pc' = "set_write"
            /\ i' = i
       ELSE /\ pc' = IF i + 1 < ob_dwords THEN "set_read" ELSE "set_apply"
            /\ i' = i + 1
    /\ UNCHANGED << hw, session, call, ob_values, ob_need_to_apply, ob_read,
                    return_code, diff_table, result, cause, writes, logs >>

\* SetWrite gone wrong: ob_need_to_apply is not set.
SetWrite_NoFlag ==
    /\ pc = "set_write"
    /\ regs' = [regs EXCEPT ![i + 1] =
                   ob_value(device_value, RefOf(ob_values, i), WriteMaskOf(ob_values, i))]
    /\ writes' = Append(writes,
                   [idx |-> i, live |-> device_value,
                    value |-> ob_value(device_value, RefOf(ob_values, i),
                                       WriteMaskOf(ob_values, i)),
                    phase |-> phase, lock |-> lock])
    /\ Issue("write_32")
    /\ logs' = Append(logs, "Need to patch")
    /\ i' = i + 1
    /\ pc' = IF i + 1 < ob_dwords THEN "set_read" ELSE "set_apply"
    /\ UNCHANGED << file, dev, phase, lock, session, call, ob_values, device_value,
                    ob_need_to_apply, ob_read, return_code, diff_table, result, cause >>

\* ob_need_to_apply = True; device_reg_addr = stm32.option_bytes_id_to_address(i);
\* self.openocd.write_32(device_reg_addr, ob_value)
SetWrite ==
    /\ pc = "set_write"
    /\ ob_need_to_apply' = TRUE
    /\ regs' = [regs EXCEPT ![i + 1] =
                   ob_value(device_value, RefOf(ob_values, i), WriteMaskOf(ob_values, i))]
    /\ writes' = Append(writes,
                   [idx |-> i, live |-> device_value,
                    value |-> ob_value(device_value, RefOf(ob_values, i),
                                       WriteMaskOf(ob_values, i)),
                    phase |-> phase, lock |-> lock])
    /\ Issue("write_32")
    /\ logs' = Append(logs, "Need to patch")
    /\ i' = i + 1
    /\ pc' = IF i + 1 < ob_dwords THEN "set_read" ELSE "set_apply"
    /\ UNCHANGED << file, dev, phase, lock, session, call, ob_values, device_value,
                    ob_read, return_code, diff_table, result, cause >>

\* SetApply gone wrong: the apply is issued whether or not a patch was written.
SetApply_Always ==
    /\ pc = "set_apply"
    /\ dev' = DevAfterApply(dev, regs)
    /\ Issue("option_bytes_apply")
    /\ pc' = "set_load"
    /\ UNCHANGED << file, regs, phase, lock, session, call, locals, result, cause,
                    writes, logs >>

\* if ob_need_to_apply: stm32.option_bytes_apply(self.openocd)
\* else: self.logger.info("Option Bytes are already correct")
SetApply ==
    /\ pc = "set_apply"
    /\ IF ob_need_to_apply
       THEN /\ dev' = DevAfterApply(dev, regs)
            /\ Issue("option_bytes_apply")
            /\ UNCHANGED logs
       ELSE /\ logs' = Append(logs, "Option Bytes are already correct")
            /\ UNCHANGED << dev, trace >>
    /\ pc' = "set_load"
    /\ UNCHANGED << file, regs, phase, lock, session, call, locals, result, cause,
                    writes >>

\* stm32.option_bytes_load(self.openocd): reloads the option bytes, which
\* resets the device and locks the option bytes and the flash again.
SetLoad ==
    /\ pc = "set_load"
    /\ regs' = RegsAfterLoad(dev, regs)
    /\ lock' = "Locked"
    /\ phase' = "Running"
    /\ Issue("option_bytes_load")
    /\ pc' = "set_run"
    /\ UNCHANGED << file, dev, session, call, locals, result, cause, writes, logs >>

\* SetRun gone wrong: the device is reset with RunMode.Init and stays halted.
SetRun_Halts ==
    /\ pc = "set_run"
    /\ phase' = PhaseAfterReset("Init")
    /\ Issue("reset_init")
    /\ pc' = "set_stop"
    /\ UNCHANGED << file, dev, regs, lock, session, call, locals, result, cause,
                    writes, logs >>

\* stm32.reset(self.openocd, stm32.RunMode.Run)
SetRun ==
    /\ pc = "set_run"
    /\ phase' = PhaseAfterReset("Run")
    /\ Issue("reset_run")
    /\ pc' = "set_stop"
    /\ UNCHANGED << file, dev, regs, lock, session, call, locals, result, cause,
                    writes, logs >>

\* self.openocd.stop(); return True
SetStop ==
    /\ pc = "set_stop"
    /\ session' = FALSE
    /\ Issue("stop")
    /\ result' = "True"
    /\ pc' = "idle"
    /\ UNCHANGED << hw, call, locals, cause, writes, logs >>

option_bytes_set ==
    \/ SetStart \/ SetHalt \/ SetGen \/ SetClear \/ SetFlashUnlock
    \/ SetOptionBytesUnlock \/ SetRead \/ SetWrite \/ SetApply \/ SetLoad
    \/ SetRun \/ SetStop

\* ----------------------------------------------- option_bytes_validate
CallOptionBytesValidate ==
    /\ \E ok \in BOOLEAN : file_ok' = ok
    /\ mode' = mode
    /\ Enter("option_bytes_validate", "val_start")

\* self.openocd.start()
ValStart ==
    /\ pc = "val_start"
    /\ session' = TRUE
    /\ Issue("start")
    /\ pc' = "val_halt"
    /\ UNCHANGED << hw, call, locals, result, cause, writes, logs >>

\* ValHalt gone wrong: the unlock of option_bytes_set was copied along.
ValHalt_Unlocks ==
    /\ pc = "val_halt"
    /\ phase' = PhaseAfterReset("Init")
    /\ lock' = LockAfterFlashUnlock(lock)
    /\ trace' = trace \o << "reset_init", "flash_unlock" >>
    /\ pc' = "val_gen"
    /\ UNCHANGED << file, dev, regs, session, call, locals, result, cause,
                    writes, logs >>

\* stm32.reset(self.openocd, stm32.RunMode.Init)
ValHalt ==
    /\ pc = "val_halt"
    /\ phase' = PhaseAfterReset("Init")
    /\ Issue("reset_init")
    /\ pc' = "val_gen"
    /\ UNCHANGED << file, dev, regs, lock, session, call, locals, result, cause,
                    writes, logs >>

\* int(ob_length / 4)
ob_words == Len(ob_values.reference) \div 4

\* ob_data = OptionBytesData(file_path); ...; ob_read = bytes()
ValGen ==
    /\ pc = "val_gen"
    /\ IF file_ok
       THEN /\ ob_values' = file
            /\ ob_read' = << >>
            /\ i' = 0
            /\ pc' = IF 0 < Len(file.reference) \div 4 THEN "val_read" ELSE "val_compare"
            /\ UNCHANGED << hw, session, call, device_value, ob_need_to_apply,
                            return_code, diff_table, result, cause, trace, writes, logs >>
       ELSE Raise("file")

\* value = self.openocd.read_32(OPTION_BYTE_BASE + i * 4)
\* ob_read += value.to_bytes(4, "little")
ValRead ==
    /\ pc = "val_read"
    /\ \E value \in read_32(i) : ob_read' = ob_read \o ToBytes4(value)
    /\ Issue("read_32")
    /\ i' = i + 1
    /\ pc' = IF i + 1 < ob_words THEN "val_read" ELSE "val_compare"
    /\ UNCHANGED << hw, session, call, ob_values, device_value, ob_need_to_apply,
                    return_code, diff_table, result, cause, writes, logs >>

\* The digits of bytes.hex().
HexDigits ==
    << "0", "1", "2", "3", "4", "5", "6", "7", "8", "9", "a", "b", "c", "d", "e", "f" >>

RECURSIVE hex(_)
\* bytes.hex(): two lowercase hexadecimal digits per byte, as a string (a
\* sequence of characters).
hex(bs) ==
    IF bs = << >> THEN << >>
    ELSE << HexDigits[(Head(bs) \div 16) + 1], HexDigits[(Head(bs) % 16) + 1] >>
            \o hex(Tail(bs))

\* data[from : to], Python's slice of a sequence (0-based, to excluded,
\* cut at the end of the data).
Slice(data, from, to) ==
    SubSeq(data, from + 1, IF to < Len(data) THEN to ELSE Len(data))

\* diff_str gone wrong: both columns take the reference's byte.
RECURSIVE diff_str_SameColumn(_, _, _, _)
diff_str_SameColumn(ref_hex, read_hex, j, column) ==
    IF j >= Len(ref_hex) THEN << >>
    ELSE (IF Slice(ref_hex, j, j + 2) = Slice(read_hex, j, j + 2)
          THEN << "_", "_" >>
          ELSE Slice(ref_hex, j, j + 2))
         \o diff_str_SameColumn(ref_hex, read_hex, j + 2, column)

RECURSIVE diff_str(_, _, _, _)
\* for j in range(0, len(ref.hex()), 2): the pair of digits at j of both
\* strings; "__" is added to both diff strings when the pairs are equal,
\* else byte_str_1 to diff_str1 (column 1) and byte_str_2 to diff_str2
\* (column 2). The string built from j on.
diff_str(ref_hex, read_hex, j, column) ==
    IF j >= Len(ref_hex) THEN << >>
    ELSE (IF Slice(ref_hex, j, j + 2) = Slice(read_hex, j, j + 2)
          THEN << "_", "_" >>
          ELSE IF column = 1 THEN Slice(ref_hex, j, j + 2)
               ELSE Slice(read_hex, j, j + 2))
         \o diff_str(ref_hex, read_hex, j + 2, column)

\* The rows printed after the header, one per 8 bytes of the reference:
\* ref.hex(), read.hex(), diff_str1, diff_str2.
ob_print_diff_table(ob_reference, read) ==
    [r \in 1 .. (Len(ob_reference) + 7) \div 8 |->
        [reference      |-> hex(Slice(ob_reference, 8 * (r - 1), 8 * r)),
         device         |-> hex(Slice(read, 8 * (r - 1), 8 * r)),
         diff_reference |-> diff_str(hex(Slice(ob_reference, 8 * (r - 1), 8 * r)),
                                     hex(Slice(read, 8 * (r - 1), 8 * r)), 0, 1),
         diff_device    |-> diff_str(hex(Slice(ob_reference, 8 * (r - 1), 8 * r)),
                                     hex(Slice(read, 8 * (r - 1), 8 * r)), 0, 2)]]

\* ob_compare gone wrong: the device bytes are compared without the mask.
ob_compare_NoMask(read, compare_mask, ob_length) ==
    [j \in 1 .. ob_length |-> read[j]]

\* for i in range(ob_length): ob_compare += bytes([ob_read[i] & ob_compare_mask[i]])
ob_compare(read, compare_mask, ob_length) ==
    [j \in 1 .. ob_length |-> BitAnd(read[j], compare_mask[j])]

\* ValCompare gone wrong: a mismatch returns True at once, without the reset
\* to run and the stop.
ValCompare_ReturnsEarly ==
    /\ pc = "val_compare"
    /\ IF ob_values.reference
            = ob_compare(ob_read, ob_values.compare_mask, Len(ob_values.reference))
       THEN /\ logs' = Append(logs, "Option Bytes are valid")
            /\ return_code' = FALSE
            /\ diff_table' = diff_table
            /\ pc' = "val_run"
            /\ result' = result
       ELSE /\ logs' = Append(logs, "Option Bytes are invalid")
            /\ diff_table' = ob_print_diff_table(ob_values.reference,
                                 ob_compare(ob_read, ob_values.compare_mask,
                                            Len(ob_values.reference)))
            /\ return_code' = TRUE
            /\ pc' = "idle"
            /\ result' = "True"
    /\ UNCHANGED << hw, session, call, ob_values, i, device_value, ob_need_to_apply,
                    ob_read, cause, trace, writes >>

\* return_code = False; if ob_reference == ob_compare: "valid"
\* else: "invalid", self._ob_print_diff_table(ob_reference, ob_compare,
\* self.logger.error), return_code = True
ValCompare ==
    /\ pc = "val_compare"
    /\ IF ob_values.reference
            = ob_compare(ob_read, ob_values.compare_mask, Len(ob_values.reference))
       THEN /\ logs' = Append(logs, "Option Bytes are valid")
            /\ return_code' = FALSE
            /\ diff_table' = diff_table
       ELSE /\ logs' = Append(logs, "Option Bytes are invalid")
            /\ diff_table' = ob_print_diff_table(ob_values.reference,
                                 ob_compare(ob_read, ob_values.compare_mask,
                                            Len(ob_values.reference)))
            /\ return_code' = TRUE
    /\ pc' = "val_run"
    /\ UNCHANGED << hw, session, call, ob_values, i, device_value, ob_need_to_apply,
                    ob_read, result, cause, trace, writes >>

\* stm32.reset(self.openocd, stm32.RunMode.Run)
ValRun ==
    /\ pc = "val_run"
    /\ phase' = PhaseAfterReset("Run")
    /\ Issue("reset_run")
    /\ pc' = "val_stop"
    /\ UNCHANGED << file, dev, regs, lock, session, call, locals, result, cause,
                    writes, logs >>

\* self.openocd.stop(); return return_code
ValStop ==
    /\ pc = "val_stop"
    /\ session' = FALSE
    /\ Issue("stop")
    /\ result' = IF return_code THEN "True" ELSE "False"
    /\ pc' = "idle"
    /\ UNCHANGED << hw, call, locals, cause, writes, logs >>

option_bytes_validate ==
    \/ ValStart \/ ValHalt \/ ValGen \/ ValRead \/ ValCompare \/ ValRun \/ ValStop

\* ResetBody gone wrong: there is no else branch, every mode but Run resets
\* to Init.
ResetBody_NoElse(after, returns) ==
    IF mode = "Run"
    THEN /\ phase' = PhaseAfterReset("Run")
         /\ Issue("reset_run")
         /\ pc' = after
         /\ result' = returns
         /\ UNCHANGED << file, dev, regs, lock, session, call, locals, cause, writes, logs >>
    ELSE /\ phase' = PhaseAfterReset("Init")
         /\ Issue("reset_init")
         /\ pc' = after
         /\ result' = returns
         /\ UNCHANGED << file, dev, regs, lock, session, call, locals, cause, writes, logs >>

\* ------------------------------------------------------------------ reset
\* The body of reset(mode): one stm32.reset for Run or Stop, an exception
\* for anything else. after is where the caller goes on.
ResetBody(after, returns) ==
    IF mode = "Run"
    THEN /\ phase' = PhaseAfterReset("Run")
         /\ Issue("reset_run")
         /\ pc' = after
         /\ result' = returns
         /\ UNCHANGED << file, dev, regs, lock, session, call, locals, cause, writes, logs >>
    ELSE IF mode = "Stop"
    THEN /\ phase' = PhaseAfterReset("Init")
         /\ Issue("reset_init")
         /\ pc' = after
         /\ result' = returns
         /\ UNCHANGED << file, dev, regs, lock, session, call, locals, cause, writes, logs >>
    ELSE Raise("mode")

CallReset ==
    /\ \E m \in {"Run", "Stop", "Other"} : mode' = m
    /\ file_ok' = file_ok
    /\ Enter("reset", "reset_body")

\* reset(mode) called on its own; return True
Reset ==
    /\ pc = "reset_body"
    /\ ResetBody("idle", "True")

\* ------------------------------------------------------------------ flash
CallFlash ==
    /\ \E ok \in BOOLEAN : file_ok' = ok
    /\ mode' = mode
    /\ Enter("flash", "flash_check")

\* if not os.path.exists(file_path): raise Exception(...)
FlashCheck ==
    /\ pc = "flash_check"
    /\ IF file_ok
       THEN /\ pc' = "flash_start"
            /\ UNCHANGED << hw, session, call, locals, result, cause, trace, writes, logs >>
       ELSE Raise("file")

\* self.openocd.start()
FlashStart ==
    /\ pc = "flash_start"
    /\ session' = TRUE
    /\ Issue("start")
    /\ pc' = "flash_init"
    /\ UNCHANGED << hw, call, locals, result, cause, writes, logs >>

\* self.openocd.send_tcl("init")
FlashInit ==
    /\ pc = "flash_init"
    /\ Issue("init")
    /\ pc' = "flash_program"
    /\ UNCHANGED << hw, session, call, locals, result, cause, writes, logs >>

\* self.openocd.send_tcl("program ... reset exit")
FlashProgram ==
    /\ pc = "flash_program"
    /\ phase' = PhaseAfterReset("Run")
    /\ Issue("program")
    /\ pc' = "flash_stop"
    /\ UNCHANGED << file, dev, regs, lock, session, call, locals, result, cause,
                    writes, logs >>

\* self.openocd.stop(); return True
FlashStop ==
    /\ pc = "flash_stop"
    /\ session' = FALSE
    /\ Issue("stop")
    /\ result' = "True"
    /\ pc' = "idle"
    /\ UNCHANGED << hw, call, locals, cause, writes, logs >>

flash == FlashCheck \/ FlashStart \/ FlashInit \/ FlashProgram \/ FlashStop

\* -------------------------------------------------------------- otp_write
CallOtpWrite ==
    /\ mode' = "Stop"
    /\ file_ok' = file_ok
    /\ Enter("otp_write", "otp_start")

\* oocd.start()
OtpStart ==
    /\ pc = "otp_start"
    /\ session' = TRUE
    /\ Issue("start")
    /\ pc' = "otp_halt"
    /\ UNCHANGED << hw, call, locals, result, cause, writes, logs >>

\* OtpHalt gone wrong: the device is reset to run before the writes.
OtpHalt_Runs ==
    /\ pc = "otp_halt"
    /\ phase' = PhaseAfterReset("Run")
    /\ Issue("reset_run")
    /\ pc' = "otp_clear"
    /\ UNCHANGED << file, dev, regs, lock, session, call, locals, result, cause,
                    writes, logs >>

\* self.reset(self.RunMode.Stop)
OtpHalt ==
    /\ pc = "otp_halt"
    /\ ResetBody("otp_clear", result)

\* A step of otp_write that sends one command and moves on.
OtpCommand(at, cmd, after) ==
    /\ pc = at
    /\ Issue(cmd)
    /\ pc' = after
    /\ UNCHANGED << hw, session, call, locals, result, cause, writes, logs >>

\* stm32.clear_flash_errors(oocd)
OtpClear == OtpCommand("otp_clear", "clear_flash_errors", "otp_read_1")
\* oocd.send_tcl(f"mdw {address} 2")
OtpRead1 == OtpCommand("otp_read_1", "mdw_address", "otp_read_2")
\* oocd.send_tcl(f"mdw {address + 8} 2")
OtpRead2 == OtpCommand("otp_read_2", "mdw_address_8", "otp_write_1")
\* stm32.write_flash(oocd, address, 0x12345678, 0x9ABCDEF1)
OtpWrite1 == OtpCommand("otp_write_1", "write_flash_address", "otp_write_2")
\* stm32.write_flash(oocd, address + 8, 0x9ABCDEF1, 0x12345678)
OtpWrite2 == OtpCommand("otp_write_2", "write_flash_address_8", "otp_read_3")
\* oocd.send_tcl(f"mdw {address} 2")
OtpRead3 == OtpCommand("otp_read_3", "mdw_address", "otp_read_4")
\* oocd.send_tcl(f"mdw {address + 8} 2")
OtpRead4 == OtpCommand("otp_read_4", "mdw_address_8", "otp_run")

\* stm32.reset(oocd, stm32.RunMode.Run)
OtpRun ==
    /\ pc = "otp_run"
    /\ phase' = PhaseAfterReset("Run")
    /\ Issue("reset_run")
    /\ pc' = "otp_stop"
    /\ UNCHANGED << file, dev, regs, lock, session, call, locals, result, cause,
                    writes, logs >>

\* oocd.stop(); return True
OtpStop ==
    /\ pc = "otp_stop"
    /\ session' = FALSE
    /\ Issue("stop")
    /\ result' = "True"
    /\ pc' = "idle"
    /\ UNCHANGED << hw, call, locals, cause, writes, logs >>

otp_write ==
    \/ OtpStart \/ OtpHalt \/ OtpClear \/ OtpRead1 \/ OtpRead2 \/ OtpWrite1
    \/ OtpWrite2 \/ OtpRead3 \/ OtpRead4 \/ OtpRun \/ OtpStop

Next ==
    \/ CallOptionBytesSet \/ option_bytes_set
    \/ CallOptionBytesValidate \/ option_bytes_validate
    \/ CallReset \/ Reset
    \/ CallFlash \/ flash
    \/ CallOtpWrite \/ otp_write
    \/ ProbeFault

Spec == Init /\ [][Next]_vars

\* ============================================================ properties
FAOBU == "FlashAndOptionBytesUnlocked"

\* Positions of a command in the trace of the running call.
Idx(cmd) == { j \in 1 .. Len(trace) : trace[j] = cmd }
Issued(cmd) == Idx(cmd) # {}
\* Every occurrence of b has an occurrence of a before it.
Precedes(a, b) == \A j \in Idx(b) : \E k \in Idx(a) : k < j
\* No occurrence of a comes before an occurrence of b.
NeverBefore(a, b) == \A j \in Idx(b) : \A k \in Idx(a) : k > j

InSet == op = "option_bytes_set"
SetCompleted == InSet /\ pc = "idle" /\ result = "True"
NumDwords == Len(file.reference) \div 8

\* C1: in option_bytes_set every write_32 to an option-byte register is made
\* while the device is Halted and flash and option bytes are both unlocked:
\* after reset-to-halt, flash_unlock and option_bytes_unlock, and before
\* option_bytes_apply, option_bytes_load and reset-to-run.
C1_WritesOnlyHaltedUnlocked ==
    /\ \A k \in 1 .. Len(writes) :
          writes[k].phase = "Halted" /\ writes[k].lock = FAOBU
    /\ Len(writes) = Cardinality(Idx("write_32"))
    /\ InSet =>
          /\ Precedes("reset_init", "write_32")
          /\ Precedes("flash_unlock", "write_32")
          /\ Precedes("option_bytes_unlock", "write_32")
          /\ NeverBefore("option_bytes_apply", "write_32")
          /\ NeverBefore("option_bytes_load", "write_32")
          /\ NeverBefore("reset_run", "write_32")

\* A completed option_bytes_set that wrote a register for each of two dwords.
C1_Witness == SetCompleted /\ Len(writes) = 2

\* C2: in option_bytes_set flash_unlock is issued strictly before
\* option_bytes_unlock, both after clear_flash_errors and before the first
\* register read or write of the patch loop.
C2_UnlockOrder ==
    InSet =>
        /\ Cardinality(Idx("flash_unlock")) <= 1
        /\ Cardinality(Idx("option_bytes_unlock")) <= 1
        /\ Precedes("flash_unlock", "option_bytes_unlock")
        /\ Precedes("clear_flash_errors", "flash_unlock")
        /\ Precedes("option_bytes_unlock", "read_32")
        /\ Precedes("option_bytes_unlock", "write_32")
        /\ pc \in {"set_read", "set_write"} => Issued("option_bytes_unlock")

\* The patch loop has read a word and written one.
C2_Witness == InSet /\ Issued("read_32") /\ Issued("write_32")

\* C3: a completed option_bytes_set issued option_bytes_load exactly once;
\* it issued option_bytes_apply if and only if it wrote a register, and then
\* after the last write and before the load.
C3_ApplyIffWritten ==
    SetCompleted =>
        /\ Cardinality(Idx("option_bytes_load")) = 1
        /\ Issued("option_bytes_apply") <=> Issued("write_32")
        /\ Cardinality(Idx("option_bytes_apply")) <= 1
        /\ Precedes("write_32", "option_bytes_apply")
        /\ NeverBefore("option_bytes_apply", "write_32")
        /\ Precedes("option_bytes_apply", "option_bytes_load")
            \/ ~Issued("option_bytes_apply")
        /\ NeverBefore("option_bytes_load", "option_bytes_apply")
        /\ NeverBefore("option_bytes_load", "write_32")

\* A completed run that applied after writing.
C3_Witness == SetCompleted /\ Issued("option_bytes_apply") /\ Len(writes) >= 1

\* Dword k of the image differs from the word w on a compared, writable bit:
\* ((w & compareMask_k) XOR reference_k) & writeMask_k != 0.
Differs(w, k) ==
    BitAnd(BitXor(BitAnd(w, unpack_u32(file.compare_mask, 8 * k)),
                  unpack_u32(file.reference, 8 * k)),
           unpack_u32(file.write_mask, 8 * k)) # 0

\* C4: when no dword index needs a patch, option_bytes_set writes no
\* register and issues no apply, but still issues the load and logs that
\* the option bytes are already correct.
C4_EmptyPatchSet ==
    (SetCompleted /\ \A k \in 0 .. NumDwords - 1 : ~Differs(dev0[k + 1], k)) =>
        /\ writes = << >>
        /\ ~Issued("write_32")
        /\ ~Issued("option_bytes_apply")
        /\ Issued("option_bytes_load")
        /\ logs = << "Option Bytes are already correct" >>

\* A completed run over two dwords, neither of which needed a patch.
C4_Witness ==
    /\ SetCompleted
    /\ NumDwords = 2
    /\ \A k \in 0 .. NumDwords - 1 : ~Differs(dev0[k + 1], k)
    /\ Cardinality(Idx("read_32")) = 2

\* C5: a dword whose write mask is 0 never needs a patch and is never
\* written, whatever its live value, compare mask and reference are.
C5_NothingOutsideWriteMask ==
    /\ \A k \in 1 .. Len(writes) :
          unpack_u32(file.write_mask, 8 * writes[k].idx) # 0
    /\ pc = "set_write" => unpack_u32(file.write_mask, 8 * i) # 0

\* A completed run that read a dword with write mask 0 whose masked live
\* value was not the reference, and wrote nothing.
C5_Witness ==
    /\ SetCompleted
    /\ NumDwords >= 1
    /\ writes = << >>
    /\ \E k \in 0 .. NumDwords - 1 :
          /\ unpack_u32(file.write_mask, 8 * k) = 0
          /\ BitAnd(dev0[k + 1], unpack_u32(file.compare_mask, 8 * k))
               # unpack_u32(file.reference, 8 * k)

\* C6: every value written agrees with the live value read for that index
\* on all bits outside the write mask.
C6_NonWritableBitsKept ==
    \A k \in 1 .. Len(writes) :
        /\ writes[k].live = dev0[writes[k].idx + 1]
        /\ BitAndNot(writes[k].value, unpack_u32(file.write_mask, 8 * writes[k].idx))
             = BitAndNot(writes[k].live, unpack_u32(file.write_mask, 8 * writes[k].idx))

\* A write whose live value had a bit set outside the write mask.
C6_Witness ==
    \E k \in 1 .. Len(writes) :
        BitAndNot(writes[k].live, unpack_u32(file.write_mask, 8 * writes[k].idx)) # 0

\* The call before this one was a completed option_bytes_set.
AfterSet == prev \in {"set", "set_wrote"}

\* C7 as stated: for every image, an option_bytes_set run right after a
\* completed one writes no register.
C7_SecondSetWritesNothing ==
    (SetCompleted /\ AfterSet) => (writes = << >> /\ ~Issued("option_bytes_apply"))

\* Dword k of the reference has a bit set that is writable but not compared:
\* reference_k & writeMask_k & ~compareMask_k != 0.
WritableUncompared(k) ==
    BitAndNot(BitAnd(unpack_u32(file.reference, 8 * k),
                     unpack_u32(file.write_mask, 8 * k)),
              unpack_u32(file.compare_mask, 8 * k)) # 0

\* C7, amended: for every image none of whose dwords has a reference bit
\* that is writable but not compared, an option_bytes_set run right after a
\* completed one writes no register and issues no apply.
C7_SecondSetWritesNothingIfCompared ==
    (SetCompleted /\ AfterSet /\ \A k \in 0 .. NumDwords - 1 : ~WritableUncompared(k)) =>
        (writes = << >> /\ ~Issued("option_bytes_apply"))

\* A second run in a row, after a first run that wrote, over such an image.
C7_Witness ==
    /\ SetCompleted
    /\ prev = "set_wrote"
    /\ \A k \in 0 .. NumDwords - 1 : ~WritableUncompared(k)
    /\ Cardinality(Idx("read_32")) = NumDwords

ValCompleted == op = "option_bytes_validate" /\ pc = "idle" /\ result \in {"True", "False"}

\* C8 as stated: option_bytes_validate run after a completed
\* option_bytes_set returns no mismatch.
C8_ValidAfterSet ==
    (ValCompleted /\ AfterSet) => result = "False"

\* Outside the reach of option_bytes_set the device words read for dword k
\* hold what the image asks for: the first word agrees with the reference on
\* every bit outside the write mask,
\* (w & compareMask_k & ~writeMask_k) == (reference_k & ~writeMask_k),
\* and the masked second word equals the second word of the reference.
UnwrittenAgrees(read, k) ==
    /\ BitAndNot(BitAnd(unpack_u32(read, 8 * k), unpack_u32(file.compare_mask, 8 * k)),
                 unpack_u32(file.write_mask, 8 * k))
         = BitAndNot(unpack_u32(file.reference, 8 * k),
                     unpack_u32(file.write_mask, 8 * k))
    /\ BitAnd(unpack_u32(read, 8 * k + 4), unpack_u32(file.compare_mask, 8 * k + 4))
         = unpack_u32(file.reference, 8 * k + 4)

\* C8, amended: option_bytes_validate run after a completed option_bytes_set
\* returns no mismatch when, for every dword, the device words it reads agree
\* with the reference on all it compares outside the write mask of the first
\* word (second word included) and no reference bit is writable but not
\* compared.
C8_ValidAfterSetWhereWritable ==
    (/\ ValCompleted
     /\ AfterSet
     /\ \A k \in 0 .. NumDwords - 1 : UnwrittenAgrees(ob_read, k) /\ ~WritableUncompared(k))
        => result = "False"

\* A validation that passed after a run of option_bytes_set that wrote.
C8_Witness ==
    /\ ValCompleted
    /\ prev = "set_wrote"
    /\ \A k \in 0 .. NumDwords - 1 : UnwrittenAgrees(ob_read, k) /\ ~WritableUncompared(k)
    /\ result = "False"

\* C9 as stated: in flash, option_bytes_validate and option_bytes_set a
\* missing or unparsable file is reported before the probe session is
\* started: no probe command has been issued when the failure is raised.
C9_FileFailureBeforeSession ==
    (result = "raised" /\ cause = "file"
       /\ op \in {"flash", "option_bytes_validate", "option_bytes_set"})
        => (trace = << >> /\ ~session)

\* C10 as stated: option_bytes_validate, option_bytes_set and otp_write
\* never end, by returning or by raising, with the probe session open.
C10_SessionStoppedOnEveryExit ==
    (pc \in {"idle", "crashed"}
       /\ op \in {"option_bytes_validate", "option_bytes_set", "otp_write"})
        => ~session

\* C11 as stated: when a probe read or write of option_bytes_set fails after
\* the unlock commands, the method still issues the load and the reset to
\* run on its way out, and never ends with the device Halted and flash and
\* option bytes unlocked.
C11_TeardownAfterFailure ==
    (InSet /\ pc \in {"idle", "crashed"} /\ Issued("option_bytes_unlock")) =>
        /\ Issued("option_bytes_load")
        /\ Issued("reset_run")
        /\ ~(phase = "Halted" /\ lock = FAOBU)

\* The last n commands of the trace.
LastIssued(n) == SubSeq(trace, Len(trace) - n + 1, Len(trace))

\* C12: every completed option_bytes_set, patched or not, returns True with
\* flash and option bytes locked again, the load issued after the last write
\* and after any apply, the reset to run as the last device command and the
\* session stop as the last probe interaction.
C12_CompletedSetLeavesKnownState ==
    (InSet /\ pc = "idle") =>
        /\ result = "True"
        /\ lock = "Locked"
        /\ phase = "Running"
        /\ ~session
        /\ Len(trace) >= 8
        /\ LastIssued(3) = << "option_bytes_load", "reset_run", "stop" >>
        /\ Cardinality(Idx("reset_run")) = 1
        /\ Cardinality(Idx("stop")) = 1
        /\ NeverBefore("option_bytes_load", "write_32")
        /\ NeverBefore("option_bytes_load", "option_bytes_apply")

\* A completed run over one dword that had nothing to patch.
C12_Witness ==
    InSet /\ pc = "idle" /\ NumDwords = 1 /\ ~Issued("option_bytes_apply")

InValidate == op = "option_bytes_validate"

\* Byte positions (1-based) at which the masked device byte is not the
\* reference byte.
MismatchedBytes ==
    { j \in 1 .. Len(file.reference) :
        BitAnd(ob_read[j], file.compare_mask[j]) # file.reference[j] }

\* C13: option_bytes_validate reads one device word for each 4-byte offset
\* of the image and returns True exactly when at some byte position the
\* device byte masked with the compare mask is not the reference byte, the
\* reference being taken as it is.
C13_MismatchIffSomeByteDiffers ==
    ValCompleted =>
        /\ Cardinality(Idx("read_32")) = Len(file.reference) \div 4
        /\ Len(ob_read) = Len(file.reference)
        /\ \A k \in 0 .. NumDwords - 1 : unpack_u32(ob_read, 8 * k) = dev[k + 1]
        /\ (result = "True") <=> (MismatchedBytes # {})
        /\ (result = "False") <=>
              (\A j \in 1 .. Len(file.reference) :
                  BitAnd(ob_read[j], file.compare_mask[j]) = file.reference[j])

\* A validation over two dwords that found exactly one byte differing, in
\* the second word of the second dword.
C13_Witness ==
    ValCompleted /\ NumDwords = 2 /\ result = "True" /\ MismatchedBytes = {13}

\* C14: once option_bytes_validate has compared, it resets the device to run
\* and then stops the session, on a match and on a mismatch alike.
C14_TeardownOnBothOutcomes ==
    /\ (InValidate /\ pc = "idle") =>
          /\ result \in {"True", "False"}
          /\ LastIssued(2) = << "reset_run", "stop" >>
          /\ Cardinality(Idx("reset_run")) = 1
          /\ Cardinality(Idx("stop")) = 1
          /\ NeverBefore("reset_run", "read_32")
          /\ phase = "Running"
          /\ ~session
          /\ logs \in { << "Option Bytes are valid" >>, << "Option Bytes are invalid" >> }
    /\ (InValidate /\ pc = "val_compare") => ~Issued("reset_run") /\ ~Issued("stop")

\* A validation that found a mismatch and has returned.
C14_Witness ==
    InValidate /\ pc = "idle" /\ return_code /\ logs = << "Option Bytes are invalid" >>

\* C15: reset(mode) issues the reset-and-run command for Run and the
\* reset-and-halt (Init) command for Stop; for any other mode it raises
\* without issuing a command; it returns True only for the two valid modes.
C15_ResetModes ==
    (op = "reset" /\ pc # "reset_body") =>
        /\ mode = "Run" /\ cause # "probe" =>
              result = "True" /\ trace = << "reset_run" >> /\ phase = "Running"
        /\ mode = "Stop" /\ cause # "probe" =>
              result = "True" /\ trace = << "reset_init" >> /\ phase = "Halted"
        /\ mode \notin {"Run", "Stop"} =>
              result = "raised" /\ cause = "mode" /\ trace = << >> /\ pc = "crashed"
        /\ result = "True" => mode \in {"Run", "Stop"}
        /\ cause = "probe" => trace = << >>

\* reset was called with a mode that is neither Run nor Stop.
C15_Witness == op = "reset" /\ mode = "Other" /\ pc = "crashed"

\* The commands of a complete otp_write.
OtpSequence ==
    << "start", "reset_init", "clear_flash_errors", "mdw_address", "mdw_address_8",
       "write_flash_address", "write_flash_address_8", "mdw_address", "mdw_address_8",
       "reset_run", "stop" >>

\* C16: otp_write issues start, reset to halt, clear flash errors, the reads
\* of address and address + 8, the write at address then at address + 8, the
\* two reads again, reset to run, stop, in this order; both writes are made
\* with the device halted and flash errors cleared, and a completed run ends
\* reset to run with the session closed.
C16_OtpWriteSequence ==
    op = "otp_write" =>
        /\ Len(trace) <= Len(OtpSequence)
        /\ trace = SubSeq(OtpSequence, 1, Len(trace))
        /\ pc \in {"otp_write_1", "otp_write_2"} =>
              phase = "Halted" /\ Issued("clear_flash_errors") /\ session
        /\ pc = "idle" =>
              /\ trace = OtpSequence
              /\ result = "True"
              /\ phase = "Running"
              /\ ~session

\* A completed otp_write.
C16_Witness == op = "otp_write" /\ pc = "idle" /\ Len(trace) = 11

\* The masked device byte option_bytes_validate compared with reference byte j.
MaskedRead(j) == BitAnd(ob_read[j], file.compare_mask[j])

\* The two characters a diff column shows for byte position p (1-based) of a row.
PairAt(str, p) == SubSeq(str, 2 * p - 1, 2 * p)

\* The two hexadecimal digits of a byte.
HexPair(b) == << HexDigits[(b \div 16) + 1], HexDigits[(b % 16) + 1] >>

\* Byte positions of row r (1-based) whose reference and masked device bytes
\* differ.
RowDiffers(r) ==
    { p \in 1 .. 8 : file.reference[8 * (r - 1) + p] # MaskedRead(8 * (r - 1) + p) }

\* C17: the diff table has one row per 8-byte chunk; a byte position whose
\* reference byte equals the masked device byte shows "__" in both diff
\* columns, and one where they differ shows the reference byte's hex pair in
\* the reference column and the device byte's hex pair in the device column.
C17_DiffTableRendering ==
    (InValidate /\ pc \in {"val_run", "val_stop", "idle", "crashed"}) =>
        /\ return_code <=> diff_table # << >>
        /\ return_code => Len(diff_table) = Len(file.reference) \div 8
        /\ \A r \in 1 .. Len(diff_table) :
              /\ Len(diff_table[r].diff_reference) = 16
              /\ Len(diff_table[r].diff_device) = 16
              /\ \A p \in 1 .. 8 :
                    IF file.reference[8 * (r - 1) + p] # MaskedRead(8 * (r - 1) + p)
                    THEN /\ PairAt(diff_table[r].diff_reference, p)
                              = HexPair(file.reference[8 * (r - 1) + p])
                         /\ PairAt(diff_table[r].diff_device, p)
                              = HexPair(MaskedRead(8 * (r - 1) + p))
                    ELSE /\ PairAt(diff_table[r].diff_reference, p) = << "_", "_" >>
                         /\ PairAt(diff_table[r].diff_device, p) = << "_", "_" >>

\* A table of two rows: one for two equal chunks, all "__", and one with a
\* single differing byte.
C17_Witness ==
    /\ InValidate
    /\ Len(diff_table) = 2
    /\ \E r, q \in 1 .. 2 :
          /\ RowDiffers(r) = {}
          /\ Cardinality(RowDiffers(q)) = 1
          /\ diff_table[r].diff_reference = [c \in 1 .. 16 |-> "_"]

\* Dword indices whose live word at the start of the call differs from the
\* image on a compared, writable bit.
NeedingPatch == { k \in 0 .. NumDwords - 1 : Differs(dev0[k + 1], k) }

\* C18: option_bytes_set visits the dword indices in ascending order, reads
\* the live word of each once, and writes index i exactly once if and only if
\* ((live & compareMask_i) XOR reference_i) & writeMask_i != 0; the writes are
\* as many as the indices needing a patch.
C18_MinimalPatchSet ==
    /\ (InSet /\ pc \in {"set_read", "set_write", "set_apply", "set_load", "set_run",
                         "set_stop", "idle"}) =>
          /\ \A a, b \in 1 .. Len(writes) : a < b => writes[a].idx < writes[b].idx
          /\ { writes[a].idx : a \in 1 .. Len(writes) } = { k \in NeedingPatch : k < i }
          /\ Cardinality(Idx("read_32")) = i + (IF pc = "set_write" THEN 1 ELSE 0)
          /\ \A j \in Idx("write_32") : j > 1 /\ trace[j - 1] = "read_32"
          /\ \A a \in 1 .. Len(writes) : writes[a].live = dev0[writes[a].idx + 1]
    /\ SetCompleted =>
          /\ i = NumDwords
          /\ Len(writes) = Cardinality(NeedingPatch)
          /\ Cardinality(Idx("read_32")) = NumDwords

\* A completed run over two dwords that wrote only the second: the first
\* disagreed with the reference in a bit that is compared but not writable.
C18_Witness ==
    /\ SetCompleted
    /\ NumDwords = 2
    /\ Len(writes) = 1
    /\ writes[1].idx = 1
    /\ unpack_u32(file.write_mask, 0) = 0
    /\ BitAnd(dev0[1], unpack_u32(file.compare_mask, 0)) # unpack_u32(file.reference, 0)

\* C19: every value written is (live & ~writeMask_i) | (reference_i & writeMask_i),
\* so it equals the reference on all writable bits; in the worked scenario
\* (reference 0xAA, compare mask 0xF0, write mask 0xF0, live 0x5A) the dword
\* needs a patch and the value written is 0xAA.
C19_WrittenValue ==
    /\ \A a \in 1 .. Len(writes) :
          /\ writes[a].value
               = BitOr(BitAndNot(writes[a].live, unpack_u32(file.write_mask, 8 * writes[a].idx)),
                       BitAnd(unpack_u32(file.reference, 8 * writes[a].idx),
                              unpack_u32(file.write_mask, 8 * writes[a].idx)))
          /\ BitAnd(writes[a].value, unpack_u32(file.write_mask, 8 * writes[a].idx))
               = BitAnd(unpack_u32(file.reference, 8 * writes[a].idx),
                        unpack_u32(file.write_mask, 8 * writes[a].idx))
    /\ (SetCompleted /\ file = ScenarioImage /\ dev0 = ScenarioLive) =>
          /\ Len(writes) = 1
          /\ writes[1].live = 90
          /\ writes[1].value = 170
          /\ ToBytes4(writes[1].value)[1] = 170

\* The worked scenario has been run and has written.
C19_Witness ==
    SetCompleted /\ file = ScenarioImage /\ dev0 = ScenarioLive /\ writes # << >>

\* The commands option_bytes_validate may issue.
ReadOnlyCommands == {"start", "reset_init", "read_32", "reset_run", "stop"}

\* C20: option_bytes_validate issues no register write, no flash unlock, no
\* option-byte unlock, no apply and no load, and no step of it changes the
\* option-byte memory, the option-byte registers or the lock state.
C20_ValidateIsReadOnly ==
    /\ [](InValidate =>
            /\ \A j \in 1 .. Len(trace) : trace[j] \in ReadOnlyCommands
            /\ writes = << >>
            /\ dev = dev0)
    /\ [][(InValidate /\ pc # "idle") =>
            (dev' = dev /\ regs' = regs /\ lock' = lock /\ file' = file)]_vars

\* A validation of two dwords that has read every word and returned a match.
C20_Witness ==
    /\ InValidate
    /\ pc = "idle"
    /\ result = "False"
    /\ Cardinality(Idx("read_32")) = 4

====
